---- MODULE Spec2Model ----
(***************************************************************************)
(* The quote layout of litclock: ImageGenerator.wrap_text,                 *)
(* calculate_optimal_font_size, draw_quote_with_highlighted_time and       *)
(* create_image of src/litclock/utils/image_generator.py.                  *)
(*                                                                         *)
(* A Python str is a sequence of one-character strings.  A font is the     *)
(* pair (role, size); the fonts dictionaries hold one font per size of     *)
(* range(16, 201, 4).  A draw call is a record holding the position, the   *)
(* text and the font; black_ops and red_ops are the calls made on          *)
(* black_draw and red_draw, in order.                                      *)
(***************************************************************************)
EXTENDS Integers, Sequences, FiniteSets, TLC

(***************************************************************************)
(* Bounds of the model.                                                    *)
(***************************************************************************)
MaxQuoteLen == 3
MaxWords == 4
MaxNameLen == 3

(***************************************************************************)
(* Program constants.                                                      *)
(***************************************************************************)
MinFontSize == 16
MaxFontSize == 200
FontStep == 4
BaseFontSize == 16
padding == 40
min_line_count == 3

None == -1

FontSizes == {MinFontSize + FontStep * i : i \in 0..((MaxFontSize - MinFontSize) \div FontStep)}

(***************************************************************************)
(* Characters.  "I" stands for U+0130 (capital I with dot above), the one  *)
(* character whose str.lower() is two characters: "i" and the combining    *)
(* dot U+0307, written "^".                                                *)
(***************************************************************************)
Whitespace == {" ", "\n"}

LowerChar(c) ==
    CASE c = "A" -> <<"a">>
      [] c = "I" -> <<"i", "^">>
      [] OTHER -> <<c>>

RECURSIVE Lower(_)
Lower(s) == IF s = <<>> THEN <<>> ELSE LowerChar(Head(s)) \o Lower(Tail(s))

\* s[i:j] of Python for 0 <= i, 0 <= j: the characters at 0-based positions i..j-1,
\* clamped to the string.
Slice(s, i, j) ==
    LET hi == IF j > Len(s) THEN Len(s) ELSE j
    IN IF i >= hi THEN <<>> ELSE SubSeq(s, i + 1, hi)

\* s.find(t): the first 0-based index at which t occurs in s, or -1.
Find(s, t) ==
    LET hits == {i \in 0..(Len(s) - Len(t)) : Slice(s, i, i + Len(t)) = t}
    IN IF hits = {} THEN -1 ELSE CHOOSE i \in hits : \A j \in hits : i <= j

\* t in s
Contains(s, t) == Find(s, t) >= 0

\* s.count(c) for a character c
Count(s, c) == Cardinality({i \in 1..Len(s) : s[i] = c})

RECURSIVE LStrip(_)
LStrip(s) == IF s # <<>> /\ Head(s) \in Whitespace THEN LStrip(Tail(s)) ELSE s

RECURSIVE RStrip(_)
RStrip(s) ==
    IF s # <<>> /\ s[Len(s)] \in Whitespace THEN RStrip(SubSeq(s, 1, Len(s) - 1)) ELSE s

Strip(s) == RStrip(LStrip(s))

\* s.split(sep) for a one-character separator: the pieces between separators,
\* empty pieces included.
RECURSIVE SplitOn(_, _)
SplitOn(s, sep) ==
    LET hits == {i \in 1..Len(s) : s[i] = sep}
    IN IF hits = {} THEN <<s>>
       ELSE LET k == CHOOSE i \in hits : \A j \in hits : i <= j
            IN <<SubSeq(s, 1, k - 1)>> \o SplitOn(SubSeq(s, k + 1, Len(s)), sep)

\* s.split(): the maximal runs of non-whitespace characters.  SplitFrom reads s
\* from position i on; word is the run read so far.
RECURSIVE SplitFrom(_, _, _)
SplitFrom(s, i, word) ==
    IF i > Len(s) THEN (IF word = <<>> THEN <<>> ELSE <<word>>)
    ELSE IF s[i] \in Whitespace
    THEN (IF word = <<>> THEN <<>> ELSE <<word>>) \o SplitFrom(s, i + 1, <<>>)
    ELSE SplitFrom(s, i + 1, Append(word, s[i]))

Split(s) == SplitFrom(s, 1, <<>>)

\* sep.join(parts)
RECURSIVE Join(_, _)
Join(parts, sep) ==
    IF parts = <<>> THEN <<>>
    ELSE IF Len(parts) = 1 THEN parts[1]
    ELSE parts[1] \o sep \o Join(Tail(parts), sep)


(***************************************************************************)
(* State.  The inputs of one create_image call (the quote record, the      *)
(* canvas of the generator and fallback_sizes, the sizes for which the     *)
(* constructor could not scale the font and stored the base font), the     *)
(* call's position pc and its local variables.  failing_font is the role   *)
(* of the fonts whose getlength raises an exception, "none" when every     *)
(* font measures.                                                          *)
(***************************************************************************)
VARIABLES quote, display_time, book, author, width, height, fallback_sizes,
          failing_font, pc, quote_font_size, wrapped_quote, meta_text, meta_font_size,
          metadata_height, black_ops, red_ops

(***************************************************************************)
(* The state of the clock process (clock.py, web.py): the configuration    *)
(* file and the configuration LiteraryClock holds, the local variables     *)
(* update_interval and last_update of run, the module variable             *)
(* should_regenerate_json of web.py and the attribute of the same name of  *)
(* LiteraryClock, the counter partial_refresh_count, the time, the         *)
(* position of the loop (the sleep it is in), the calls made on the        *)
(* display, the numbers of calls of update_display and of                  *)
(* LiteraryClock.regenerate_json, and what wrote quotes.json last.         *)
(***************************************************************************)
VARIABLES config_file, config, update_interval, should_regenerate_json,
          clock_should_regenerate_json, partial_refresh_count, last_update, now,
          clock_pc, epd_calls, update_calls, regenerate_calls, quotes_json

clock_vars == <<config_file, config, update_interval, should_regenerate_json,
                clock_should_regenerate_json, partial_refresh_count, last_update, now,
                clock_pc, epd_calls, update_calls, regenerate_calls, quotes_json>>

(***************************************************************************)
(* The loops of create_image followed step by step: the loop under way     *)
(* (sub_pc), the index and the state of  for size in font_sizes, the       *)
(* number of calls of wrap_text of the pass, and the index i of the        *)
(* truncation.                                                             *)
(***************************************************************************)
VARIABLES sub_pc, loop_index, loop_state, wraps, scan_index

loop_vars == <<sub_pc, loop_index, loop_state, wraps, scan_index>>

image_vars == <<quote, display_time, book, author, width, height, fallback_sizes,
                failing_font, pc, quote_font_size, wrapped_quote, meta_text, meta_font_size,
                metadata_height, black_ops, red_ops, loop_vars>>

vars == <<image_vars, clock_vars>>

inputs == <<quote, display_time, book, author, width, height, fallback_sizes,
            failing_font>>

(***************************************************************************)
(* The fonts the constructor stores: self.fonts[role][size] is a font of    *)
(* that size, or the base font (of size 16) where scaling failed.          *)
(* font.getlength(text) is the advance width: one em per character.        *)
(***************************************************************************)
GlyphSize(size) == IF size \in fallback_sizes THEN BaseFontSize ELSE size

getlength(text, size) == Len(text) * GlyphSize(size)

\* int(size * 1.2) of Python, for the sizes 0..999 (where the float product
\* truncates to the same integer as the exact one)
IntTimes12(size) == (size * 6) \div 5

\* int(size * 0.5)
IntHalf(size) == size \div 2

Min(S) == CHOOSE x \in S : \A y \in S : x <= y
Max(S) == CHOOSE x \in S : \A y \in S : x >= y

\* sorted(S, reverse=True)
RECURSIVE SortedDesc(_)
SortedDesc(S) == IF S = {} THEN <<>> ELSE <<Max(S)>> \o SortedDesc(S \ {Max(S)})

\* font_sizes = sorted(self.fonts['normal'].keys(), reverse=True)
font_sizes_desc == SortedDesc(FontSizes)

smallest_size == Min(FontSizes)

largest_size == Max(FontSizes)

(***************************************************************************)
(* wrap_text                                                               *)
(***************************************************************************)
\* wrap_text measuring the word in hand where the code measures the line
RECURSIVE WrapWords_MeasuresWord(_, _, _, _)
WrapWords_MeasuresWord(words, lines, size, max_width) ==
    IF words = <<>> THEN lines
    ELSE LET word == Head(words)
             line == Strip(lines[Len(lines)] \o <<" ">> \o word)
         IN IF getlength(word, size) <= max_width
            THEN WrapWords_MeasuresWord(Tail(words), [lines EXCEPT ![Len(lines)] = line],
                                        size, max_width)
            ELSE WrapWords_MeasuresWord(Tail(words), Append(lines, word), size, max_width)

\* wrap_text putting a word that does not fit in place of the line in hand
RECURSIVE WrapWords_ReplacesLine(_, _, _, _)
WrapWords_ReplacesLine(words, lines, size, max_width) ==
    IF words = <<>> THEN lines
    ELSE LET word == Head(words)
             line == Strip(lines[Len(lines)] \o <<" ">> \o word)
         IN IF getlength(line, size) <= max_width
            THEN WrapWords_ReplacesLine(Tail(words), [lines EXCEPT ![Len(lines)] = line],
                                        size, max_width)
            ELSE WrapWords_ReplacesLine(Tail(words), [lines EXCEPT ![Len(lines)] = word],
                                        size, max_width)

\* a word appended only when the line stays strictly narrower than max_width
RECURSIVE WrapWords_StrictlyNarrower(_, _, _, _)
WrapWords_StrictlyNarrower(words, lines, size, max_width) ==
    IF words = <<>> THEN lines
    ELSE LET word == Head(words)
             line == Strip(lines[Len(lines)] \o <<" ">> \o word)
         IN IF getlength(line, size) < max_width
            THEN WrapWords_StrictlyNarrower(Tail(words), [lines EXCEPT ![Len(lines)] = line],
                                            size, max_width)
            ELSE WrapWords_StrictlyNarrower(Tail(words), Append(lines, word), size, max_width)

RECURSIVE WrapWords(_, _, _, _)
WrapWords(words, lines, size, max_width) ==
    IF words = <<>> THEN lines
    ELSE LET word == Head(words)
             line == Strip(lines[Len(lines)] \o <<" ">> \o word)
         IN IF getlength(line, size) <= max_width
            THEN WrapWords(Tail(words), [lines EXCEPT ![Len(lines)] = line], size, max_width)
            ELSE WrapWords(Tail(words), Append(lines, word), size, max_width)

\* the list `lines` of wrap_text before it is joined
wrap_lines(text, size, max_width) == WrapWords(Split(text), << <<>> >>, size, max_width)

wrap_text(text, size, max_width) == Join(wrap_lines(text, size, max_width), <<"\n">>)

(***************************************************************************)
(* calculate_optimal_font_size.  A usage is the fraction num/den.          *)
(***************************************************************************)
UsageGt(u, v) == u.num * v.den > v.num * u.den

\* usage > 0.85
GoodUsage(u) == u.num * 20 > 17 * u.den

\* the best candidate replaced by any later candidate of min_line_count lines
BetterCandidate_AnyUsage(best_size, best_usage, usage, line_count) ==
    best_size = None \/ line_count >= min_line_count

\* the best candidate replaced on the usage alone
BetterCandidate_IgnoresLineCount(best_size, best_usage, usage, line_count) ==
    best_size = None \/ UsageGt(usage, best_usage)

\* if best_size is None or (usage > best_usage and line_count >= min_line_count)
BetterCandidate(best_size, best_usage, usage, line_count) ==
    best_size = None \/ (UsageGt(usage, best_usage) /\ line_count >= min_line_count)

\* the loop left on the usage alone
EarlyExit_IgnoresLineCount(usage, line_count) == GoodUsage(usage)

\* if usage > 0.85 and line_count >= min_line_count
EarlyExit(usage, line_count) == GoodUsage(usage) /\ line_count >= min_line_count

\* the height compared with the height of the canvas less the metadata
Fits_IgnoresPadding(total_height, available_height) ==
    total_height <= available_height + 2 * padding

\* if total_height <= available_height
Fits(total_height, available_height) == total_height <= available_height

\* The state of the loop: whether it has returned (and what), and
\* best_size, best_usage, best_wrapped_text.
LoopStart ==
    [returned |-> FALSE, size |-> None, wrapped |-> <<>>,
     best_size |-> None, best_usage |-> [num |-> 0, den |-> 1], best_wrapped_text |-> <<>>]

\* one iteration of  for size in font_sizes
LoopBody(st, text, size, available_width, available_height) ==
    IF st.returned THEN st
    ELSE LET wrapped_text == wrap_text(text, size, available_width)
             line_count == Count(wrapped_text, "\n") + 1
             line_height == IntTimes12(size)
             total_height == line_count * line_height
             usage == [num |-> total_height, den |-> available_height]
             st1 == IF BetterCandidate(st.best_size, st.best_usage, usage, line_count)
                    THEN [st EXCEPT !.best_size = size, !.best_usage = usage,
                                    !.best_wrapped_text = wrapped_text]
                    ELSE st
         IN IF Fits(total_height, available_height)
            THEN IF EarlyExit(usage, line_count)
                 THEN [st1 EXCEPT !.returned = TRUE, !.size = size, !.wrapped = wrapped_text]
                 ELSE st1
            ELSE st

\* the iterations for font_sizes[lo..hi], in order
RECURSIVE ForEachSize(_, _, _, _, _, _)
ForEachSize(st, lo, hi, text, available_width, available_height) ==
    IF lo > hi THEN st
    ELSE IF lo = hi
    THEN LoopBody(st, text, font_sizes_desc[lo], available_width, available_height)
    ELSE LET mid == (lo + hi) \div 2
             left == ForEachSize(st, lo, mid, text, available_width, available_height)
         IN IF left.returned THEN left
            ELSE ForEachSize(left, mid + 1, hi, text, available_width, available_height)

\* the largest size returned where the code returns the smallest
AfterLoop_ReturnsLargest(st, text, available_width) ==
    IF st.best_size # None
    THEN [size |-> st.best_size, wrapped |-> st.best_wrapped_text]
    ELSE [size |-> largest_size, wrapped |-> wrap_text(text, largest_size, available_width)]

\* what the function returns when the loop ends without returning
AfterLoop(st, text, available_width) ==
    IF st.best_size # None
    THEN [size |-> st.best_size, wrapped |-> st.best_wrapped_text]
    ELSE [size |-> smallest_size, wrapped |-> wrap_text(text, smallest_size, available_width)]

calculate_optimal_font_size(text, max_width, max_height, meta_height) ==
    LET available_height == max_height - meta_height - 80
        available_width == max_width - 80
        st == ForEachSize(LoopStart, 1, Len(font_sizes_desc), text,
                          available_width, available_height)
    IN IF st.returned
       THEN [size |-> st.size, wrapped |-> st.wrapped]
       ELSE AfterLoop(st, text, available_width)

(***************************************************************************)
(* Drawing.  A call draw.text(...) or draw.multiline_text(...).            *)
(***************************************************************************)
\* line is the index of the line of the quote the call draws (line_idx), None
\* for a call that draws no single line of the quote.
TextOp(x, y, text, role, size, line) ==
    [kind |-> "text", x |-> x, y |-> y, text |-> text, role |-> role, size |-> size,
     anchor |-> "none", line |-> line]

AnchoredTextOp(x, y, text, role, size, anchor) ==
    [kind |-> "text", x |-> x, y |-> y, text |-> text, role |-> role, size |-> size,
     anchor |-> anchor, line |-> None]

MultilineOp(x, y, text, role, size) ==
    [kind |-> "multiline", x |-> x, y |-> y, text |-> text, role |-> role, size |-> size,
     anchor |-> "none", line |-> None]

\* font.getbbox("Ay")[3] of the font stored for the size: the bottom of the
\* bounding box is the size of the glyphs
BBoxBottom(size) == GlyphSize(size)

\* current_size: the first size in self.fonts['normal'] whose font is normal_font
\* (the sizes that fell back to the base font share one font object)
CurrentSize(size) ==
    IF size \in fallback_sizes THEN Min(fallback_sizes) ELSE size

\* the smallest size taken when no size is large enough
TimeFontSize_ElseSmallest(current_size) ==
    LET larger_size == IntTimes12(current_size)
        larger_sizes == {s \in FontSizes : s >= larger_size}
    IN IF larger_sizes # {} THEN Min(larger_sizes) ELSE Min(FontSizes)

\* the size of time_font in draw_quote_with_highlighted_time
TimeFontSize(current_size) ==
    LET larger_size == IntTimes12(current_size)
        larger_sizes == {s \in FontSizes : s >= larger_size}
    IN IF larger_sizes # {} THEN Min(larger_sizes) ELSE Max(FontSizes)

\* y_offset of the time text
TimeYOffset(size, time_size) ==
    LET d == (BBoxBottom(size) - BBoxBottom(time_size)) \div 2
    IN IF d > 0 THEN d ELSE 0

\* the text after the time taken from one character too far
DrawStartLine_SkipsCharacter(line, line_idx, x, curr_y, line_start_idx, line_end_idx, size, time_size) ==
    LET line_len == Len(line)
        before_time == Slice(line, 0, line_start_idx)
        x_offset == IF line_start_idx > 0 THEN getlength(before_time, size) ELSE 0
        time_part == Slice(line, line_start_idx, line_end_idx)
        x_after == x_offset + getlength(time_part, time_size)
    IN (IF line_start_idx > 0 THEN <<TextOp(x, curr_y, before_time, "normal", size, line_idx)>> ELSE <<>>)
       \o <<TextOp(x + x_offset, curr_y - TimeYOffset(size, time_size), time_part, "bold",
                  time_size, line_idx)>>
       \o (IF line_end_idx < line_len
           THEN <<TextOp(x + x_after, curr_y, Slice(line, line_end_idx + 1, line_len), "normal",
                         size, line_idx)>>
           ELSE <<>>)

\* the line that holds the start of the time string
DrawStartLine(line, line_idx, x, curr_y, line_start_idx, line_end_idx, size, time_size) ==
    LET line_len == Len(line)
        before_time == Slice(line, 0, line_start_idx)
        x_offset == IF line_start_idx > 0 THEN getlength(before_time, size) ELSE 0
        time_part == Slice(line, line_start_idx, line_end_idx)
        x_after == x_offset + getlength(time_part, time_size)
    IN (IF line_start_idx > 0 THEN <<TextOp(x, curr_y, before_time, "normal", size, line_idx)>> ELSE <<>>)
       \o <<TextOp(x + x_offset, curr_y - TimeYOffset(size, time_size), time_part, "bold",
                  time_size, line_idx)>>
       \o (IF line_end_idx < line_len
           THEN <<TextOp(x + x_after, curr_y, Slice(line, line_end_idx, line_len), "normal",
                         size, line_idx)>>
           ELSE <<>>)

\* a line that holds the continuation of the time string
DrawContinuationLine(line, line_idx, x, curr_y, line_end_idx, size, time_size) ==
    LET line_len == Len(line)
        time_part == Slice(line, 0, line_end_idx)
        x_offset == getlength(time_part, time_size)
    IN <<TextOp(x, curr_y - TimeYOffset(size, time_size), time_part, "bold", time_size,
                line_idx)>>
       \o (IF line_end_idx < line_len
           THEN <<TextOp(x + x_offset, curr_y, Slice(line, line_end_idx, line_len), "normal",
                         size, line_idx)>>
           ELSE <<>>)

\* the loop over the lines of the text; lines[line_idx] is the line in hand
RECURSIVE DrawLines(_, _, _, _, _, _, _, _, _, _)
DrawLines(lines, line_idx, current_pos, curr_y, x, start_idx, end_idx, size, time_size, line_height) ==
    IF line_idx > Len(lines) THEN <<>>
    ELSE LET line == lines[line_idx]
             line_len == Len(line)
             lo == start_idx - current_pos
             hi == IF end_idx - current_pos < line_len THEN end_idx - current_pos ELSE line_len
             ops == IF current_pos <= start_idx /\ start_idx < current_pos + line_len + 1
                    THEN DrawStartLine(line, line_idx - 1, x, curr_y, lo, hi, size, time_size)
                    ELSE IF current_pos + line_len <= start_idx \/ current_pos >= end_idx
                    THEN <<TextOp(x, curr_y, line, "normal", size, line_idx - 1)>>
                    ELSE IF current_pos < end_idx
                    THEN DrawContinuationLine(line, line_idx - 1, x, curr_y, hi, size, time_size)
                    ELSE <<>>
         IN ops \o DrawLines(lines, line_idx + 1, current_pos + line_len + 1, curr_y + line_height,
                             x, start_idx, end_idx, size, time_size, line_height)

\* draw_quote_with_highlighted_time: the calls it makes on black_draw
draw_quote_with_highlighted_time(x, y, text, time_string, size, override_line_height) ==
    LET line_height == override_line_height
        time_lower == Lower(time_string)
        text_lower == Lower(text)
        time_size == TimeFontSize(CurrentSize(size))
        start_idx == Find(text_lower, time_lower)
        end_idx == start_idx + Len(time_string)
    IN IF Contains(text_lower, time_lower)
       THEN DrawLines(SplitOn(text, "\n"), 1, 0, y, x, start_idx, end_idx, size, time_size, line_height)
       ELSE <<MultilineOp(x, y, text, "normal", size)>>


(***************************************************************************)
(* create_image: the caption (metadata) size and text                      *)
(***************************************************************************)
\* meta_text = f"-{book}, {author}" if book and author else ""
ComposeMetaText(b, a) ==
    IF b # <<>> /\ a # <<>> THEN <<"-">> \o b \o <<",", " ">> \o a ELSE <<>>

ellipsis == <<".", ".", ".">>

\* the size the caption starts from: int(quote_font_size * 0.5), or the closest
\* available size below it, or the smallest available size
InitialMetaFontSize(q_size) ==
    LET m == IntHalf(q_size)
        smaller_sizes == {s \in FontSizes : s <= m}
    IN IF m \in FontSizes THEN m
       ELSE IF smaller_sizes # {} THEN Max(smaller_sizes)
       ELSE Min(FontSizes)

\* the size reduced once at most
ShrinkMetaFont_SingleStep(text, m_size, max_meta_width) ==
    IF getlength(text, m_size) > max_meta_width /\ m_size > Min(FontSizes)
    THEN Max({s \in FontSizes : s < m_size})
    ELSE m_size

\* while meta_width > max_meta_width and meta_font_size > min(available_sizes)
RECURSIVE ShrinkMetaFont(_, _, _)
ShrinkMetaFont(text, m_size, max_meta_width) ==
    IF getlength(text, m_size) > max_meta_width /\ m_size > Min(FontSizes)
    THEN LET smaller_sizes == {s \in FontSizes : s < m_size}
         IN IF smaller_sizes # {}
            THEN ShrinkMetaFont(text, Max(smaller_sizes), max_meta_width)
            ELSE m_size
    ELSE m_size

\* for i in range(len(meta_text) - 1, 0, -1): the first truncation that fits
TruncateMeta(text, m_size, max_meta_width) ==
    LET fitting == {i \in 1..(Len(text) - 1) :
                       getlength(Slice(text, 0, i) \o ellipsis, m_size) <= max_meta_width}
    IN IF getlength(text, m_size) > max_meta_width /\ fitting # {}
       THEN Slice(text, 0, Max(fitting)) \o ellipsis
       ELSE text

\* the size of time_font of the separately drawn time
SeparateTimeFontSize(q_size) ==
    LET larger_size == IntTimes12(q_size)
        larger_sizes == {s \in FontSizes : s >= larger_size}
    IN IF larger_sizes # {} THEN Min(larger_sizes) ELSE Max(FontSizes)

(***************************************************************************)
(* create_image, step by step                                              *)
(***************************************************************************)
\* font.getlength raises for the fonts of this role
MeasureFails(role) == failing_font = role

\* wrap_text measures a line as soon as the text has a word
SelectorRaises == MeasureFails("normal") /\ Split(quote) # <<>>

\* meta_font.getlength(meta_text)
MetadataRaises == MeasureFails("meta")

\* time_font.getlength(time_part), on the line where the time string starts
HighlightRaises ==
    MeasureFails("bold") /\ Contains(Lower(wrapped_quote), Lower(display_time))

\* quote_data.get(...), the two images, meta_text
ExtractQuoteData ==
    /\ pc = "entry"
    /\ meta_text' = ComposeMetaText(book, author)
    /\ pc' = "start"
    /\ UNCHANGED <<clock_vars, loop_vars, inputs, quote_font_size, wrapped_quote, meta_font_size,
                   metadata_height, black_ops, red_ops>>

\* if meta_text: the first calculate_optimal_font_size, with metadata height 0
FirstPass ==
    /\ pc = "start"
    /\ meta_text # <<>>
    /\ ~SelectorRaises
    /\ \E r \in {calculate_optimal_font_size(quote, width, height, 0)} :
          /\ quote_font_size' = r.size
          /\ wrapped_quote' = r.wrapped
    /\ pc' = "meta_size"
    /\ UNCHANGED <<clock_vars, loop_vars, inputs, meta_text, meta_font_size, metadata_height, black_ops, red_ops>>

\* else: metadata_height = 0
NoMetadata ==
    /\ pc = "start"
    /\ meta_text = <<>>
    /\ metadata_height' = 0
    /\ pc' = "second"
    /\ UNCHANGED <<clock_vars, loop_vars, inputs, quote_font_size, wrapped_quote, meta_text, meta_font_size,
                   black_ops, red_ops>>

\* the metadata font size: the initial size, then reduced until the text fits
ChooseMetaFont ==
    /\ pc = "meta_size"
    /\ ~MetadataRaises
    /\ meta_font_size' = ShrinkMetaFont(meta_text, InitialMetaFontSize(quote_font_size),
                                        width - 2 * padding)
    /\ pc' = "truncate"
    /\ UNCHANGED <<clock_vars, loop_vars, inputs, quote_font_size, wrapped_quote, meta_text, metadata_height,
                   black_ops, red_ops>>

\* the metadata height taken as the font size, without the 20% spacing
TruncateAndMeasure_HeightWithoutSpacing ==
    /\ pc = "truncate"
    /\ meta_text' = TruncateMeta(meta_text, meta_font_size, width - 2 * padding)
    /\ metadata_height' = meta_font_size
    /\ pc' = "second"
    /\ UNCHANGED <<clock_vars, loop_vars, inputs, quote_font_size, wrapped_quote, meta_font_size, black_ops, red_ops>>

\* truncation with an ellipsis, then metadata_height = int(meta_font_size * 1.2)
TruncateAndMeasure ==
    /\ pc = "truncate"
    /\ meta_text' = TruncateMeta(meta_text, meta_font_size, width - 2 * padding)
    /\ metadata_height' = IntTimes12(meta_font_size)
    /\ pc' = "second"
    /\ UNCHANGED <<clock_vars, loop_vars, inputs, quote_font_size, wrapped_quote, meta_font_size, black_ops, red_ops>>

\* the second call made with metadata height 0, like the first
SecondPass_WithoutMetadataHeight ==
    /\ pc = "second"
    /\ ~SelectorRaises
    /\ \E r \in {calculate_optimal_font_size(quote, width, height, 0)} :
          /\ quote_font_size' = r.size
          /\ wrapped_quote' = r.wrapped
    /\ pc' = "draw"
    /\ UNCHANGED <<clock_vars, loop_vars, inputs, meta_text, meta_font_size, metadata_height, black_ops, red_ops>>

\* the second calculate_optimal_font_size, with the metadata height
SecondPass ==
    /\ pc = "second"
    /\ ~SelectorRaises
    /\ \E r \in {calculate_optimal_font_size(quote, width, height, metadata_height)} :
          /\ quote_font_size' = r.size
          /\ wrapped_quote' = r.wrapped
    /\ pc' = "draw"
    /\ UNCHANGED <<clock_vars, loop_vars, inputs, meta_text, meta_font_size, metadata_height, black_ops, red_ops>>

\* if display_time and display_time.lower() in quote.lower()
TimeInQuote == display_time # <<>> /\ Contains(Lower(quote), Lower(display_time))

\* the quote with the time highlighted
DrawHighlighted ==
    /\ pc = "draw"
    /\ TimeInQuote
    /\ ~HighlightRaises
    /\ black_ops' = black_ops \o
           draw_quote_with_highlighted_time(padding, padding, wrapped_quote, display_time,
                                            quote_font_size, IntTimes12(quote_font_size))
    /\ pc' = "draw_meta"
    /\ UNCHANGED <<clock_vars, loop_vars, inputs, quote_font_size, wrapped_quote, meta_text, meta_font_size,
                   metadata_height, red_ops>>

\* the calls made before time_font.getlength is called for the first time
UpToFirstTimeOp(ops) ==
    LET time_ops == {i \in 1..Len(ops) : ops[i].role = "bold"}
    IN IF time_ops = {} THEN ops ELSE SubSeq(ops, 1, Min(time_ops))

\* the quote with the time highlighted when time_font.getlength raises: the
\* exception is caught after the calls already made, and the whole text is
\* drawn over them (except Exception: multiline_text)
DrawHighlightedFallback ==
    /\ pc = "draw"
    /\ TimeInQuote
    /\ HighlightRaises
    /\ black_ops' = black_ops
           \o UpToFirstTimeOp(
                  draw_quote_with_highlighted_time(padding, padding, wrapped_quote,
                                                   display_time, quote_font_size,
                                                   IntTimes12(quote_font_size)))
           \o <<MultilineOp(padding, padding, wrapped_quote, "normal", quote_font_size)>>
    /\ pc' = "draw_meta"
    /\ UNCHANGED <<clock_vars, loop_vars, inputs, quote_font_size, wrapped_quote, meta_text, meta_font_size,
                   metadata_height, red_ops>>

\* an exception of font.getlength in wrap_text or in the fitting of the
\* metadata leaves create_image: nothing is returned
MeasurementRaises ==
    /\ \/ pc = "start" /\ meta_text # <<>> /\ SelectorRaises
       \/ pc = "second" /\ SelectorRaises
       \/ pc = "meta_size" /\ MetadataRaises
    /\ pc' = "raised"
    /\ UNCHANGED <<clock_vars, loop_vars, inputs, quote_font_size, wrapped_quote, meta_text, meta_font_size,
                   metadata_height, black_ops, red_ops>>

\* the quote drawn normally, and the time (if any) drawn separately at the bottom
DrawNormally ==
    /\ pc = "draw"
    /\ ~TimeInQuote
    /\ black_ops' = black_ops
           \o <<MultilineOp(padding, padding, wrapped_quote, "normal", quote_font_size)>>
           \o (IF display_time # <<>>
               THEN <<AnchoredTextOp(width \div 2, height - padding - metadata_height - 20,
                                     display_time, "bold",
                                     SeparateTimeFontSize(quote_font_size), "ms")>>
               ELSE <<>>)
    /\ pc' = "draw_meta"
    /\ UNCHANGED <<clock_vars, loop_vars, inputs, quote_font_size, wrapped_quote, meta_text, meta_font_size,
                   metadata_height, red_ops>>

\* the metadata at the bottom right; return black_image, red_image
DrawMetadata ==
    /\ pc = "draw_meta"
    /\ black_ops' = black_ops \o
           (IF meta_text # <<>>
            THEN <<AnchoredTextOp(width - padding, height - padding - metadata_height \div 2,
                                  meta_text, "meta", meta_font_size, "rm")>>
            ELSE <<>>)
    /\ pc' = "done"
    /\ UNCHANGED <<clock_vars, loop_vars, inputs, quote_font_size, wrapped_quote, meta_text, meta_font_size,
                   metadata_height, red_ops>>


(***************************************************************************)
(* The calls checked.  Three families of quote records and generators:     *)
(* every short quote with a time string; quotes of several words on        *)
(* canvases of several sizes, with and without sizes that fell back to     *)
(* the base font; captions of several lengths.                             *)
(***************************************************************************)
Strings(S, n) == UNION {[1..k -> S] : k \in 0..n}

Alphabet == {"a", "A", "b", " ", "\n"}

\* the short quotes; U+0130 only as the first character
ShortQuotes ==
    Strings(Alphabet, MaxQuoteLen)
    \cup {<<"I">> \o q : q \in Strings(Alphabet, MaxQuoteLen - 1)}

Times == {<<>>, <<" ">>, <<"a">>, <<"A">>, <<"a", " ", "a">>, <<"a", "\n", "a">>}

QuoteWords == {<<"a">>, <<"a", "a">>}

WordQuotes == {Join(ws, <<" ">>) : ws \in UNION {[1..k -> QuoteWords] : k \in 1..MaxWords}}

Titles == {[i \in 1..k |-> "t"] : k \in 0..MaxNameLen}

Authors == {[i \in 1..k |-> "u"] : k \in 0..MaxNameLen}

Canvas(available_width, available_height) ==
    [width |-> available_width + 2 * padding, height |-> available_height + 2 * padding]

\* the canvas of the panel (self.width, self.height)
PanelCanvas == [width |-> 960, height |-> 680]

Canvases == {Canvas(w, h) : w \in {16, 32, 64}, h \in {57, 100, 150}} \cup {PanelCanvas}

CaptionCanvases == {Canvas(w, h) : w \in {40, 48, 64, 80, 112, 160}, h \in {57, 150}}

Fallbacks == {{}, {32}, {24, 48}}

(***************************************************************************)
(* LiteraryClock (clock.py) and the handlers of WebInterface (web.py).     *)
(* One step of the clock is one iteration of the loop of run, from the end *)
(* of a sleep to the start of the next; time passes in the sleeps.         *)
(***************************************************************************)
\* time.time() when run starts, far above every update interval
StartTime == 1000

\* the iterations of the loop followed, counted in sleeps of 5 s
MaxSleeps == 48

MaxClockTime == StartTime + 5 * MaxSleeps

\* values of update_interval in the configuration file
Intervals == {30, 120}

\* values of partial_refresh_count in the configuration file
RefreshCounts == {0, 1, 2}

\* the clock before LiteraryClock is constructed: no loop runs
ClockNotStarted ==
    /\ config_file = [update_interval |-> 600, partial_refresh_count |-> 10]
    /\ config = config_file
    /\ update_interval = 600
    /\ should_regenerate_json = FALSE
    /\ clock_should_regenerate_json = FALSE
    /\ partial_refresh_count = 0
    /\ last_update = 0
    /\ now = 0
    /\ clock_pc = "off"
    /\ epd_calls = <<>>
    /\ update_calls = 0
    /\ regenerate_calls = 0
    /\ quotes_json = "initial"

\* no loop of create_image is under way
LoopsNotStarted ==
    /\ sub_pc = "none"
    /\ loop_index = 0
    /\ loop_state = LoopStart
    /\ wraps = 0
    /\ scan_index = 0

\* no call of create_image is under way
NoImageCall ==
    /\ quote = <<>> /\ display_time = <<>> /\ book = <<>> /\ author = <<>>
    /\ width = PanelCanvas.width /\ height = PanelCanvas.height
    /\ fallback_sizes = {}
    /\ failing_font = "none"
    /\ pc = "idle"
    /\ quote_font_size = None
    /\ wrapped_quote = <<>>
    /\ meta_text = <<>>
    /\ meta_font_size = None
    /\ metadata_height = None
    /\ black_ops = <<>>
    /\ red_ops = <<>>
    /\ LoopsNotStarted

\* LiteraryClock.__init__ and the first lines of run
InitClock ==
    /\ NoImageCall
    /\ config_file \in [update_interval : Intervals, partial_refresh_count : RefreshCounts]
    /\ config = config_file
    /\ update_interval = config_file.update_interval
    /\ should_regenerate_json = FALSE
    /\ clock_should_regenerate_json = FALSE
    /\ partial_refresh_count = 0
    /\ last_update = 0
    /\ now = StartTime
    /\ clock_pc = "loop"
    /\ epd_calls = <<>>
    /\ update_calls = 0
    /\ regenerate_calls = 0
    /\ quotes_json = "initial"

\* the sleep the loop is in: time.sleep(60) after a failed update, else time.sleep(5)
SleepTime ==
    IF clock_pc = "sleep60" THEN 60 ELSE IF clock_pc = "sleep5" THEN 5 ELSE 0

\* current_time = time.time() at the top of the loop
current_time == now + SleepTime

\* new_config = self.load_config()
new_config == config_file

\* update_interval after "if new_config != self.config"
ReloadedInterval ==
    IF new_config # config THEN new_config.update_interval ELSE update_interval

\* the full refresh made one update later
NeedsFullRefresh_OneLater(count, threshold) == count > threshold

\* if self.partial_refresh_count >= partial_refresh_count
NeedsFullRefresh(count, threshold) == count >= threshold

\* last_update set whatever update_display returns
LastUpdateAfter_AnyResult(updated, t) == t

\* if self.update_display(): last_update = current_time
LastUpdateAfter(updated, t) == IF updated THEN t ELSE last_update

\* if current_time - last_update >= update_interval
UpdateDue == current_time - last_update >= ReloadedInterval

\* the top of the loop: the time, the configuration read again, and
\* regenerate_json when the attribute of the clock is set
LoopHead ==
    /\ clock_pc \in {"loop", "sleep5", "sleep60"}
    /\ current_time <= MaxClockTime
    /\ now' = current_time
    /\ config' = new_config
    /\ update_interval' = ReloadedInterval
    /\ IF clock_should_regenerate_json
       THEN /\ quotes_json' = "clock"
            /\ clock_should_regenerate_json' = FALSE
            /\ regenerate_calls' = regenerate_calls + 1
       ELSE UNCHANGED <<quotes_json, clock_should_regenerate_json, regenerate_calls>>
    /\ UNCHANGED <<image_vars, config_file, should_regenerate_json>>

\* an iteration in which no update is due: time.sleep(5)
LoopSleeps ==
    /\ LoopHead
    /\ ~UpdateDue
    /\ clock_pc' = "sleep5"
    /\ UNCHANGED <<partial_refresh_count, last_update, epd_calls, update_calls>>

\* an iteration in which update_display returns True: a full refresh
\* (epd.display) or a partial one (epd.display_Partial)
UpdateDisplaySucceeds ==
    /\ LoopHead
    /\ UpdateDue
    /\ update_calls' = update_calls + 1
    /\ IF NeedsFullRefresh(partial_refresh_count, new_config.partial_refresh_count)
       THEN /\ epd_calls' = Append(epd_calls, "display")
            /\ partial_refresh_count' = 0
       ELSE /\ epd_calls' = Append(epd_calls, "display_Partial")
            /\ partial_refresh_count' = partial_refresh_count + 1
    /\ last_update' = LastUpdateAfter(TRUE, current_time)
    /\ clock_pc' = "sleep5"

\* an iteration in which update_display returns False (no images, or an
\* exception): time.sleep(60); continue
UpdateDisplayFails ==
    /\ LoopHead
    /\ UpdateDue
    /\ update_calls' = update_calls + 1
    /\ last_update' = LastUpdateAfter(FALSE, current_time)
    /\ clock_pc' = "sleep60"
    /\ UNCHANGED <<partial_refresh_count, epd_calls>>

\* POST /save_settings: the update interval of the form written to the file
save_settings ==
    /\ clock_pc # "off"
    /\ \E v \in Intervals : config_file' = [config_file EXCEPT !.update_interval = v]
    /\ UNCHANGED <<image_vars, config, update_interval, should_regenerate_json,
                   clock_should_regenerate_json, partial_refresh_count, last_update, now,
                   clock_pc, epd_calls, update_calls, regenerate_calls, quotes_json>>

\* what a handler of web.py does once convert_csv_to_json has returned
ConvertedByWeb(converted, handler) ==
    /\ IF converted
       THEN should_regenerate_json' = TRUE /\ quotes_json' = handler
       ELSE UNCHANGED <<should_regenerate_json, quotes_json>>
    /\ UNCHANGED <<image_vars, config_file, config, update_interval,
                   clock_should_regenerate_json, partial_refresh_count, last_update, now,
                   clock_pc, epd_calls, update_calls, regenerate_calls>>

\* POST /upload_csv with a CSV file
upload_csv ==
    /\ clock_pc # "off"
    /\ \E converted \in BOOLEAN : ConvertedByWeb(converted, "upload_csv")

\* POST /api/regenerate
api_regenerate_json ==
    /\ clock_pc # "off"
    /\ \E converted \in BOOLEAN : ConvertedByWeb(converted, "api_regenerate")

NextClock ==
    \/ LoopSleeps
    \/ UpdateDisplaySucceeds
    \/ UpdateDisplayFails
    \/ save_settings
    \/ upload_csv
    \/ api_regenerate_json

SpecClock == InitClock /\ [][NextClock]_vars

InitLocals ==
    /\ ClockNotStarted
    /\ LoopsNotStarted
    /\ pc = "entry"
    /\ quote_font_size = None
    /\ wrapped_quote = <<>>
    /\ meta_text = <<>>
    /\ meta_font_size = None
    /\ metadata_height = None
    /\ black_ops = <<>>
    /\ red_ops = <<>>

\* a bare quote on a narrow canvas, or a full record on the panel's canvas
InitHighlight ==
    /\ InitLocals
    /\ quote \in ShortQuotes
    /\ display_time \in Times
    /\ \/ /\ book = <<>> /\ author = <<>>
          /\ width = Canvas(48, 57).width /\ height = Canvas(48, 57).height
       \/ /\ book = <<"t">> /\ author = <<"u">>
          /\ width = PanelCanvas.width /\ height = PanelCanvas.height
    /\ fallback_sizes = {}
    /\ failing_font = "none"

InitSelect ==
    /\ InitLocals
    /\ quote \in WordQuotes
    /\ \/ display_time = <<>> /\ book = <<>> /\ author = <<>>
       \/ display_time = <<"a">> /\ book = <<"t">> /\ author = <<"u">>
    /\ \E c \in Canvases : width = c.width /\ height = c.height
    /\ fallback_sizes \in Fallbacks
    /\ failing_font = "none"

InitCaption ==
    /\ InitLocals
    /\ \/ quote = <<"a">> /\ display_time = <<"b">>
       \/ quote = <<"a", " ", "a", " ", "a">> /\ display_time = <<"a">>
    /\ book \in Titles
    /\ author \in Authors
    /\ \E c \in CaptionCanvases : width = c.width /\ height = c.height
    /\ fallback_sizes = {}
    /\ failing_font = "none"

Init == InitHighlight \/ InitSelect \/ InitCaption

Next ==
    \/ ExtractQuoteData
    \/ FirstPass
    \/ NoMetadata
    \/ ChooseMetaFont
    \/ TruncateAndMeasure
    \/ SecondPass
    \/ DrawHighlighted
    \/ DrawNormally
    \/ DrawMetadata

Spec == Init /\ [][Next]_vars

SpecHighlight == InitHighlight /\ [][Next]_vars

SpecSelect == InitSelect /\ [][Next]_vars

SpecCaption == InitCaption /\ [][Next]_vars

\* calls made with fonts of one role that cannot measure
FailingFonts == {"normal", "bold", "meta"}

MeasuredQuotes == Strings({"a", "b", " "}, MaxQuoteLen)

InitMetrics ==
    /\ InitLocals
    /\ quote \in MeasuredQuotes
    /\ display_time \in {<<>>, <<"a">>}
    /\ \/ book = <<>> /\ author = <<>>
       \/ book = <<"t">> /\ author = <<"u">>
    /\ \/ width = Canvas(48, 57).width /\ height = Canvas(48, 57).height
       \/ width = PanelCanvas.width /\ height = PanelCanvas.height
    /\ fallback_sizes = {}
    /\ failing_font \in FailingFonts \cup {"none"}

NextWithFailures ==
    \/ Next
    \/ MeasurementRaises
    \/ DrawHighlightedFallback

SpecMetrics == InitMetrics /\ [][NextWithFailures]_vars

(***************************************************************************)
(* create_image with its loops followed one iteration at a time.           *)
(***************************************************************************)
\* the metadata height the pass under way is called with
PassMetaHeight == IF pc = "start" THEN 0 ELSE metadata_height

\* calculate_optimal_font_size is called: the loop is about to start
BeginPass ==
    /\ pc \in {"start", "second"}
    /\ pc = "start" => meta_text # <<>>
    /\ sub_pc = "none"
    /\ sub_pc' = "sizes"
    /\ loop_index' = 1
    /\ loop_state' = LoopStart
    /\ wraps' = 0
    /\ UNCHANGED <<clock_vars, inputs, pc, quote_font_size, wrapped_quote, meta_text,
                   meta_font_size, metadata_height, black_ops, red_ops, scan_index>>

\* one iteration of  for size in font_sizes
ExamineSize ==
    /\ sub_pc = "sizes"
    /\ loop_index <= Len(font_sizes_desc)
    /\ ~loop_state.returned
    /\ loop_state' = LoopBody(loop_state, quote, font_sizes_desc[loop_index],
                              width - 80, height - PassMetaHeight - 80)
    /\ loop_index' = loop_index + 1
    /\ wraps' = wraps + 1
    /\ UNCHANGED <<clock_vars, inputs, pc, quote_font_size, wrapped_quote, meta_text,
                   meta_font_size, metadata_height, black_ops, red_ops, sub_pc, scan_index>>

\* the return of calculate_optimal_font_size: from inside the loop, with the
\* best candidate, or with the smallest size and one more wrap_text
EndPass ==
    /\ sub_pc = "sizes"
    /\ loop_state.returned \/ loop_index > Len(font_sizes_desc)
    /\ \E r \in {IF loop_state.returned
                 THEN [size |-> loop_state.size, wrapped |-> loop_state.wrapped]
                 ELSE AfterLoop(loop_state, quote, width - 80)} :
          /\ quote_font_size' = r.size
          /\ wrapped_quote' = r.wrapped
    /\ wraps' = IF ~loop_state.returned /\ loop_state.best_size = None THEN wraps + 1 ELSE wraps
    /\ pc' = IF pc = "start" THEN "meta_size" ELSE "draw"
    /\ sub_pc' = "none"
    /\ loop_index' = 0
    /\ loop_state' = LoopStart
    /\ UNCHANGED <<clock_vars, inputs, meta_text, meta_font_size, metadata_height,
                   black_ops, red_ops, scan_index>>

\* the size the caption starts from
BeginShrink ==
    /\ pc = "meta_size"
    /\ sub_pc = "none"
    /\ meta_font_size' = InitialMetaFontSize(quote_font_size)
    /\ sub_pc' = "shrink"
    /\ UNCHANGED <<clock_vars, inputs, pc, quote_font_size, wrapped_quote, meta_text,
                   metadata_height, black_ops, red_ops, loop_index, loop_state, wraps,
                   scan_index>>

\* while meta_width > max_meta_width and meta_font_size > min(available_sizes)
MustShrink ==
    /\ getlength(meta_text, meta_font_size) > width - 2 * padding
    /\ meta_font_size > Min(FontSizes)

\* meta_font_size = max(smaller_sizes)
NextSmallerSize(m_size) == Max({s \in FontSizes : s < m_size})

\* one iteration of the while loop
ShrinkStep ==
    /\ sub_pc = "shrink"
    /\ MustShrink
    /\ meta_font_size' = NextSmallerSize(meta_font_size)
    /\ UNCHANGED <<clock_vars, inputs, pc, quote_font_size, wrapped_quote, meta_text,
                   metadata_height, black_ops, red_ops, loop_vars>>

\* the while loop ends
EndShrink ==
    /\ sub_pc = "shrink"
    /\ ~MustShrink
    /\ pc' = "truncate"
    /\ sub_pc' = "none"
    /\ UNCHANGED <<clock_vars, inputs, quote_font_size, wrapped_quote, meta_text,
                   meta_font_size, metadata_height, black_ops, red_ops, loop_index,
                   loop_state, wraps, scan_index>>

\* if meta_width > max_meta_width
MustTruncate == getlength(meta_text, meta_font_size) > width - 2 * padding

\* the caption fits: metadata_height
NoTruncation ==
    /\ pc = "truncate"
    /\ sub_pc = "none"
    /\ ~MustTruncate
    /\ metadata_height' = IntTimes12(meta_font_size)
    /\ pc' = "second"
    /\ UNCHANGED <<clock_vars, inputs, quote_font_size, wrapped_quote, meta_text,
                   meta_font_size, black_ops, red_ops, loop_vars>>

\* for i in range(len(meta_text) - 1, 0, -1): the first i
BeginScan ==
    /\ pc = "truncate"
    /\ sub_pc = "none"
    /\ MustTruncate
    /\ scan_index' = Len(meta_text) - 1
    /\ sub_pc' = "scan"
    /\ UNCHANGED <<clock_vars, inputs, pc, quote_font_size, wrapped_quote, meta_text,
                   meta_font_size, metadata_height, black_ops, red_ops, loop_index,
                   loop_state, wraps>>

\* truncated = meta_text[:i] + ellipsis
Truncated(i) == Slice(meta_text, 0, i) \o ellipsis

\* if meta_font.getlength(truncated) <= max_meta_width
TruncatedFits(i) == getlength(Truncated(i), meta_font_size) <= width - 2 * padding

\* the index stays where it is
NextScanIndex_Stays(i) == i

\* the next i of range(len(meta_text) - 1, 0, -1)
NextScanIndex(i) == i - 1

\* one iteration of the for loop that does not break
ScanStep ==
    /\ sub_pc = "scan"
    /\ scan_index >= 1
    /\ ~TruncatedFits(scan_index)
    /\ scan_index' = NextScanIndex(scan_index)
    /\ UNCHANGED <<clock_vars, inputs, pc, quote_font_size, wrapped_quote, meta_text,
                   meta_font_size, metadata_height, black_ops, red_ops, sub_pc, loop_index,
                   loop_state, wraps>>

\* the for loop ends, with break or without: metadata_height
EndScan ==
    /\ sub_pc = "scan"
    /\ scan_index < 1 \/ TruncatedFits(scan_index)
    /\ meta_text' = IF scan_index >= 1 THEN Truncated(scan_index) ELSE meta_text
    /\ metadata_height' = IntTimes12(meta_font_size)
    /\ pc' = "second"
    /\ sub_pc' = "none"
    /\ scan_index' = 0
    /\ UNCHANGED <<clock_vars, inputs, quote_font_size, wrapped_quote, meta_font_size,
                   black_ops, red_ops, loop_index, loop_state, wraps>>

NextStepwise ==
    \/ ExtractQuoteData
    \/ NoMetadata
    \/ BeginPass
    \/ ExamineSize
    \/ EndPass
    \/ BeginShrink
    \/ ShrinkStep
    \/ EndShrink
    \/ NoTruncation
    \/ BeginScan
    \/ ScanStep
    \/ EndScan
    \/ DrawHighlighted
    \/ DrawNormally
    \/ DrawMetadata

\* the statement the call is at can be executed and changes the state: the
\* condition under which each step of NextStepwise is enabled, step by step
StepPossible ==
    \/ pc = "entry"
    \/ pc = "start" /\ meta_text = <<>>
    \/ pc \in {"start", "second"} /\ (pc = "start" => meta_text # <<>>) /\ sub_pc = "none"
    \/ sub_pc = "sizes"
    \/ pc = "meta_size" /\ sub_pc = "none"
    \/ sub_pc = "shrink" /\ MustShrink /\ NextSmallerSize(meta_font_size) # meta_font_size
    \/ sub_pc = "shrink" /\ ~MustShrink
    \/ pc = "truncate" /\ sub_pc = "none"
    \/ sub_pc = "scan" /\ scan_index >= 1 /\ ~TruncatedFits(scan_index)
          /\ NextScanIndex(scan_index) # scan_index
    \/ sub_pc = "scan" /\ (scan_index < 1 \/ TruncatedFits(scan_index))
    \/ pc = "draw" /\ TimeInQuote /\ ~HighlightRaises
    \/ pc = "draw" /\ ~TimeInQuote
    \/ pc = "draw_meta"

\* the interpreter executes the statement the call is at: weak fairness of
\* NextStepwise, WF_vars(NextStepwise), with its enabling condition written
\* out as StepPossible
RunsOn == []<>(~StepPossible) \/ []<><<NextStepwise>>_vars

\* a call of create_image runs on until it returns
SpecStepwise == InitCaption /\ [][NextStepwise]_vars /\ RunsOn

(***************************************************************************)
(* What was drawn for the quote, as runs.  A run is a piece of one line    *)
(* of the quote drawn in one font: a draw.text call of the highlighting    *)
(* loop is one run, a draw.multiline_text call is one run for each line of *)
(* its text.  The planes are taken together.                               *)
(***************************************************************************)
AllOps == black_ops \o red_ops

QuoteOps == SelectSeq(AllOps, LAMBDA o : o.anchor = "none")

StandaloneOps == SelectSeq(AllOps, LAMBDA o : o.anchor = "ms")

OpRuns(o) ==
    IF o.kind = "multiline"
    THEN LET ls == SplitOn(o.text, "\n")
         IN [i \in 1..Len(ls) |-> [line |-> i - 1, text |-> ls[i], role |-> o.role]]
    ELSE <<[line |-> o.line, text |-> o.text, role |-> o.role]>>

RECURSIVE RunsOfOps(_)
RunsOfOps(ops) ==
    IF ops = <<>> THEN <<>> ELSE OpRuns(Head(ops)) \o RunsOfOps(Tail(ops))

QuoteRuns == RunsOfOps(QuoteOps)

RunsOnLine(i) == SelectSeq(QuoteRuns, LAMBDA r : r.line = i)

RECURSIVE ConcatText(_)
ConcatText(runs) ==
    IF runs = <<>> THEN <<>> ELSE Head(runs).text \o ConcatText(Tail(runs))

StyledText(runs) == [k \in 1..Len(runs) |-> [text |-> runs[k].text, role |-> runs[k].role]]

WrappedLines == SplitOn(wrapped_quote, "\n")

\* the quote has been drawn
Drawn == pc \in {"draw_meta", "done"}

\* the time string occurs, whatever the case of the letters, in the wrapped quote
FoundInWrapped ==
    display_time # <<>> /\ Contains(Lower(wrapped_quote), Lower(display_time))

\* C1: when the time string occurs in the wrapped quote, the runs drawn by
\* draw_quote_with_highlighted_time for a line, put together in the order they
\* were drawn and whatever the plane, are that line: every run belongs to a
\* line of the wrapped quote, every line is drawn once, and no character is
\* lost or drawn twice.
C1_HighlightCoverage ==
    (Drawn /\ TimeInQuote /\ FoundInWrapped) =>
        /\ \A k \in 1..Len(QuoteRuns) : QuoteRuns[k].line \in 0..(Len(WrappedLines) - 1)
        /\ \A i \in 1..Len(WrappedLines) : ConcatText(RunsOnLine(i - 1)) = WrappedLines[i]

\* a quote of two lines drawn with the time on its second line
C1_Witness ==
    /\ Drawn /\ TimeInQuote /\ FoundInWrapped
    /\ Len(WrappedLines) = 2
    /\ Len(RunsOnLine(0)) = 1 /\ RunsOnLine(0)[1].role = "normal"
    /\ \E k \in 1..Len(RunsOnLine(1)) :
          RunsOnLine(1)[k].role = "bold" /\ RunsOnLine(1)[k].text # <<>>

\* the first place (line, column) at which the time string occurs inside one
\* line of the wrapped quote, whatever the case of the letters
OccursAt(i, k) ==
    /\ i \in 1..Len(WrappedLines)
    /\ k \in 0..(Len(WrappedLines[i]) - Len(display_time))
    /\ Lower(Slice(WrappedLines[i], k, k + Len(display_time))) = Lower(display_time)

Occurrences ==
    {p \in (1..Len(WrappedLines)) \X (0..Len(wrapped_quote)) : OccursAt(p[1], p[2])}

FirstOccurrence ==
    CHOOSE p \in Occurrences :
        \A q \in Occurrences : p[1] < q[1] \/ (p[1] = q[1] /\ p[2] <= q[2])

\* the line L drawn as the text before column k, the time, the text after it
BeforeTimeAfter(L, k, n) ==
    (IF k > 0 THEN <<[text |-> Slice(L, 0, k), role |-> "normal"]>> ELSE <<>>)
    \o <<[text |-> Slice(L, k, k + n), role |-> "bold"]>>
    \o (IF k + n < Len(L) THEN <<[text |-> Slice(L, k + n, Len(L)), role |-> "normal"]>>
        ELSE <<>>)

\* C10: when the time string is found inside one line of the wrapped quote,
\* starting at column k of that line, that line is drawn as a normal run for
\* the text before column k (none when it is empty), a time run that is the
\* len(time_string) characters of the line from column k, and a normal run
\* for the rest of the line (none when it is empty); every other line is one
\* normal run.
C10_RunsOnMatchingLine ==
    (Drawn /\ TimeInQuote /\ Occurrences # {}) =>
        LET i == FirstOccurrence[1]
            k == FirstOccurrence[2]
        IN \A j \in 1..Len(WrappedLines) :
              StyledText(RunsOnLine(j - 1)) =
                  IF j = i THEN BeforeTimeAfter(WrappedLines[j], k, Len(display_time))
                  ELSE <<[text |-> WrappedLines[j], role |-> "normal"]>>

\* the time runs drawn inside the lines of the quote
InlineTimeRuns == SelectSeq(QuoteRuns, LAMBDA r : r.role = "bold" /\ r.text # <<>>)

\* C6: a display time that is neither empty nor only whitespace is emphasised
\* once: when it occurs in the wrapped quote, by at least one time run inside
\* the lines of the quote and no time drawn apart; when it does not, by one
\* time drawn apart while every line of the quote is one normal run.  Never
\* both, and never neither.
C6_TimeEmphasisedOnce ==
    (pc = "done" /\ Strip(display_time) # <<>>) =>
        IF FoundInWrapped
        THEN Len(InlineTimeRuns) >= 1 /\ StandaloneOps = <<>>
        ELSE /\ Len(StandaloneOps) = 1
             /\ StandaloneOps[1].text = display_time
             /\ \A j \in 1..Len(WrappedLines) :
                   StyledText(RunsOnLine(j - 1)) =
                       <<[text |-> WrappedLines[j], role |-> "normal"]>>

(***************************************************************************)
(* The selector and the wrapping, as seen by create_image: after either    *)
(* call of calculate_optimal_font_size, quote_font_size and wrapped_quote  *)
(* hold what it returned.                                                  *)
(***************************************************************************)
SelectorReturned == pc \in {"meta_size", "draw"}

\* the metadata height the call was given
MetaHeightGiven == IF pc = "meta_size" THEN 0 ELSE metadata_height

AvailableWidth == width - 2 * padding

AvailableHeight == height - MetaHeightGiven - 2 * padding

LineCount(text) == Len(SplitOn(text, "\n"))

BlockHeight(wrapped, size) == LineCount(wrapped) * IntTimes12(size)

\* the quote wrapped at size s is no higher than the available height
CandidateFits(s) ==
    BlockHeight(wrap_text(quote, s, AvailableWidth), s) <= AvailableHeight

NoCandidateFits == \A s \in FontSizes : ~CandidateFits(s)

\* C2: the size calculate_optimal_font_size returns, with the wrapped text it
\* returns, is no higher than the available height (lines times line height),
\* unless no candidate size fits at all, and then it is the smallest size.
C2_SelectorSafety ==
    SelectorReturned =>
        IF NoCandidateFits
        THEN quote_font_size = smallest_size
        ELSE BlockHeight(wrapped_quote, quote_font_size) <= AvailableHeight

\* a size above the smallest returned with a block of several lines that fits
C2_Witness ==
    /\ SelectorReturned
    /\ quote_font_size > smallest_size
    /\ LineCount(wrapped_quote) >= 2
    /\ BlockHeight(wrapped_quote, quote_font_size) <= AvailableHeight
    /\ ~CandidateFits(largest_size)

\* every word of the quote alone is no wider than the available width at size s
WordsFit(s) ==
    \A i \in 1..Len(Split(quote)) : getlength(Split(quote)[i], s) <= AvailableWidth

LinesFit(wrapped, s) ==
    \A i \in 1..LineCount(wrapped) : getlength(SplitOn(wrapped, "\n")[i], s) <= AvailableWidth

\* C3: at every size at which each word of the quote alone is no wider than
\* the maximum width, every line wrap_text returns is no wider than it; so are
\* the lines of the wrapped quote create_image goes on to draw.
C3_WrapCorrectness ==
    pc = "draw" =>
        /\ \A s \in FontSizes :
              WordsFit(s) => LinesFit(wrap_text(quote, s, AvailableWidth), s)
        /\ WordsFit(quote_font_size) => LinesFit(wrapped_quote, quote_font_size)

\* a quote wrapped into several lines, one of them of several words
C3_Witness ==
    /\ pc = "draw"
    /\ WordsFit(quote_font_size)
    /\ LineCount(wrapped_quote) >= 2
    /\ \E i \in 1..LineCount(wrapped_quote) : Contains(SplitOn(wrapped_quote, "\n")[i], <<" ">>)

\* the words of the lines of a wrapped text, the lines put together again with spaces
WordsOfLines(wrapped) == Split(Join(SplitOn(wrapped, "\n"), <<" ">>))

\* C4: wrap_text never returns no line at all, and the lines it returns, put
\* together again with single spaces, hold the words of the text, in order and
\* none lost, added or changed; at every size, and for the wrapped quote
\* create_image goes on to draw.
C4_WrapKeepsWords ==
    pc = "draw" =>
        /\ \A s \in FontSizes :
              /\ Len(wrap_lines(quote, s, AvailableWidth)) >= 1
              /\ WordsOfLines(wrap_text(quote, s, AvailableWidth)) = Split(quote)
        /\ WordsOfLines(wrapped_quote) = Split(quote)

\* a quote of several words and uneven whitespace wrapped into several lines
C4_Witness ==
    /\ pc = "draw"
    /\ Len(Split(quote)) >= 2
    /\ Join(Split(quote), <<" ">>) # quote
    /\ LineCount(wrapped_quote) >= 2

\* the metadata drawn
MetaOps == SelectSeq(AllOps, LAMBDA o : o.anchor = "rm")

C7_NoFitFallback ==
    /\ (SelectorReturned /\ NoCandidateFits) =>
          /\ quote_font_size = smallest_size
          /\ wrapped_quote = wrap_text(quote, smallest_size, AvailableWidth)
    /\ (pc = "done" /\ NoCandidateFits) =>
          LET lines == wrap_lines(quote, smallest_size, AvailableWidth)
          IN \A i \in 1..Len(lines) : ConcatText(RunsOnLine(i - 1)) = lines[i]

\* a quote too high at every size, returned wrapped at the smallest size
C7_Witness ==
    /\ pc = "draw"
    /\ NoCandidateFits
    /\ quote_font_size = smallest_size
    /\ LineCount(wrapped_quote) >= min_line_count

\* the sizes at which the wrapped quote fits and has min_line_count lines
FittingWithMinLines ==
    {s \in FontSizes :
        /\ CandidateFits(s)
        /\ LineCount(wrap_text(quote, s, AvailableWidth)) >= min_line_count}

SingleWord == quote # <<>> /\ \A i \in 1..Len(quote) : quote[i] \notin Whitespace

\* C11: for a text that is one unbroken word wrap_text returns one line, that
\* word, at every size and whatever the maximum width, also when the word
\* alone is wider than it; no empty line comes before the word.
C11_SingleWordOneLine ==
    (pc = "draw" /\ SingleWord) =>
        /\ \A s \in FontSizes : wrap_text(quote, s, AvailableWidth) = quote
        /\ wrapped_quote = quote

\* the quote is wider than the available width at every candidate size
OverwideAtEverySize == \A s \in FontSizes : getlength(quote, s) > AvailableWidth

\* C12: for a quote that is one unbroken word wider than the available width
\* at every candidate size, calculate_optimal_font_size returns the smallest
\* candidate size.
C12_OverwideWordSmallestSize ==
    (SelectorReturned /\ SingleWord /\ OverwideAtEverySize) =>
        quote_font_size = smallest_size

\* the caption before it is fitted
FullCaption == ComposeMetaText(book, author)

\* the longest prefix of the caption, the empty one at worst, with the ellipsis
LongestPrefixWithEllipsis(size) ==
    LET fitting == {i \in 0..(Len(FullCaption) - 1) :
                       getlength(Slice(FullCaption, 0, i) \o ellipsis, size) <= AvailableWidth}
    IN Slice(FullCaption, 0, IF fitting = {} THEN 0 ELSE Max(fitting)) \o ellipsis

C14_EmptyQuoteRejected ==
    quote = <<>> => (AllOps = <<>> /\ pc # "done")

\* a call of font.getlength made by create_image raises
MeasurementFailed ==
    \/ SelectorRaises
    \/ FullCaption # <<>> /\ MetadataRaises
    \/ TimeInQuote /\ HighlightRaises

\* C15: when font.getlength raises during wrapping, size selection, caption
\* fitting or highlighting, create_image does not come to return the two
\* images, and no text is drawn in place of the failed drawing.
C15_MeasurementFailurePropagates ==
    pc \in {"draw_meta", "done"} => ~MeasurementFailed

\* the size of the first pass: the selector with metadata height 0
ProvisionalSize == calculate_optimal_font_size(quote, width, height, 0).size

\* the caption size fitted against the size of the first pass
FittedCaptionSize ==
    ShrinkMetaFont(FullCaption, InitialMetaFontSize(ProvisionalSize), AvailableWidth)

\* the line height of the caption, 0 when there is no caption
CaptionLineHeight == IF FullCaption = <<>> THEN 0 ELSE IntTimes12(FittedCaptionSize)

\* C16: the quote size and the wrapped quote create_image draws and ends with
\* are what the selector returns for the metadata height H, the line height
\* of the caption fitted against the size the selector returns for metadata
\* height 0 (H = 0 without caption); the caption keeps the size fitted
\* against that first size, and nothing is selected again afterwards.
C16_TwoPasses ==
    pc \in {"draw", "done"} =>
        LET r == calculate_optimal_font_size(quote, width, height, CaptionLineHeight)
        IN /\ quote_font_size = r.size
           /\ wrapped_quote = r.wrapped
           /\ metadata_height = CaptionLineHeight
           /\ FullCaption # <<>> => meta_font_size = FittedCaptionSize
           /\ (pc = "done" /\ FullCaption # <<>>) => MetaOps[1].size = FittedCaptionSize

\* a caption whose height made the second pass return a smaller size
C16_Witness ==
    /\ pc = "done"
    /\ FullCaption # <<>>
    /\ quote_font_size < ProvisionalSize
    /\ metadata_height > 0

\* C17: in the images create_image returns, the time text (in the quote, its
\* continuation on a next line, or drawn apart) is drawn on the red image and
\* only there, every other text of the quote and the caption on the black
\* image and only there, and with a display time that is not empty the red
\* image is not left empty.
C17_PlaneSeparation ==
    pc = "done" =>
        /\ \A i \in 1..Len(black_ops) : black_ops[i].role # "bold"
        /\ \A i \in 1..Len(red_ops) : red_ops[i].role = "bold"
        /\ display_time # <<>> => red_ops # <<>>

\* for every candidate size, the lines and the height of the quote wrapped at it
Candidates ==
    [s \in FontSizes |->
        LET wrapped == wrap_text(quote, s, AvailableWidth)
        IN [lines |-> LineCount(wrapped), height |-> BlockHeight(wrapped, s)]]

\* the sizes that fit the available height
FittingAmong(c) == {s \in FontSizes : c[s].height <= AvailableHeight}

\* the sizes that fit with a usage above 0.85 (17/20) and min_line_count lines
EarlyExitAmong(c) ==
    {s \in FittingAmong(c) :
        c[s].height * 20 > 17 * AvailableHeight /\ c[s].lines >= min_line_count}

BreaksAreForced(lines, size, max_width) ==
    \A i \in 1..(Len(lines) - 1) :
        getlength(lines[i] \o <<" ">> \o Head(Split(lines[i + 1])), size) > max_width

\* C20: at every candidate size, for every line break wrap_text makes, the
\* finished line followed by one space and the first word of the next line
\* measures more than the maximum width; so do the breaks of the wrapped quote
\* create_image goes on to draw.
C20_GreedyWrap ==
    pc = "draw" =>
        /\ \A s \in FontSizes :
              BreaksAreForced(wrap_lines(quote, s, AvailableWidth), s, AvailableWidth)
        /\ BreaksAreForced(SplitOn(wrapped_quote, "\n"), quote_font_size, AvailableWidth)

\* a line of several words that fills the maximum width exactly, followed by
\* another line
C20_Witness ==
    /\ pc = "draw"
    /\ \E i \in 1..(LineCount(wrapped_quote) - 1) :
          LET line == SplitOn(wrapped_quote, "\n")[i]
          IN /\ Contains(line, <<" ">>)
             /\ getlength(line, quote_font_size) = AvailableWidth

\* the drawing calls of the time text, inside the quote or apart
TimeOps == SelectSeq(AllOps, LAMBDA o : o.role = "bold")

\* the smallest candidate size s with s >= 1.2 x n, compared exactly
\* (5 s >= 6 n), or the largest candidate size when there is none
ExactAccentSize(n) ==
    LET larger_sizes == {s \in FontSizes : 5 * s >= 6 * n}
    IN IF larger_sizes # {} THEN Min(larger_sizes) ELSE Max(FontSizes)

\* C21: in a finished drawing every time text, inside the quote or apart, has
\* the smallest candidate size that is at least 1.2 times the size of the
\* quote, the product compared exactly, or the largest candidate size when no
\* candidate is that large.
C21_AccentSizeExact ==
    pc = "done" =>
        \A i \in 1..Len(TimeOps) : TimeOps[i].size = ExactAccentSize(quote_font_size)

\* every time text is drawn at a size no smaller than the size of the quote
TimeNoSmallerThanQuote ==
    \A i \in 1..Len(TimeOps) : TimeOps[i].size >= quote_font_size

RoundTimes12(size) == (12 * size + 5) \div 10

\* the calls that draw the normal text of a line of the highlighted quote
NormalLineOps == SelectSeq(QuoteOps, LAMBDA o : o.kind = "text" /\ o.role = "normal")

\* C23: the line height is round(size x 1.2): when some candidate size fits
\* the available height with that line height, the size returned fits with
\* it, and the lines of the highlighted quote are placed that far apart.
C23_LineHeightRounded ==
    /\ (SelectorReturned
            /\ \E s \in FontSizes :
                  LineCount(wrap_text(quote, s, AvailableWidth)) * RoundTimes12(s)
                      <= AvailableHeight)
        => LineCount(wrapped_quote) * RoundTimes12(quote_font_size) <= AvailableHeight
    /\ pc = "done" =>
          \A i \in 1..Len(NormalLineOps) :
              NormalLineOps[i].y = padding + NormalLineOps[i].line * RoundTimes12(quote_font_size)

\* C24: a display time that is empty or only whitespace is not found: in a
\* finished drawing no time run is split out of a line of the quote: every
\* line of the wrapped quote is one normal run.
C24_BlankTimeNotFound ==
    (pc = "done" /\ Strip(display_time) = <<>>) =>
        /\ Len(QuoteRuns) = LineCount(wrapped_quote)
        /\ \A i \in 1..Len(QuoteRuns) :
              QuoteRuns[i].role = "normal" /\ QuoteRuns[i].line = i - 1

\* the largest candidate size <= round(0.5 x q_size), or the smallest candidate
\* size when none is that small (q_size is even: the half is exact)
CaptionStartSize(q_size) ==
    LET smaller_sizes == {s \in FontSizes : 2 * s <= q_size}
    IN IF smaller_sizes # {} THEN Max(smaller_sizes) ELSE Min(FontSizes)

\* the candidate sizes up to the start size at which the full caption fits
CaptionFittingSizes ==
    {s \in FontSizes :
        /\ s <= CaptionStartSize(quote_font_size)
        /\ getlength(meta_text, s) <= AvailableWidth}

\* C25: the caption size chosen after the first pass is the largest candidate
\* size, up to the start size (the largest candidate <= half the provisional
\* quote size, or the smallest candidate), at which the full caption is no
\* wider than the maximum width, or the smallest candidate size when it fits
\* at none; it is a candidate size.
C25_CaptionSize ==
    pc = "truncate" =>
        /\ meta_font_size \in FontSizes
        /\ meta_font_size =
              IF CaptionFittingSizes # {} THEN Max(CaptionFittingSizes) ELSE Min(FontSizes)

\* a caption that fits two sizes or more below the start size
C25_Witness ==
    /\ pc = "truncate"
    /\ CaptionFittingSizes # {}
    /\ meta_font_size = Max(CaptionFittingSizes)
    /\ meta_font_size + 2 * FontStep <= CaptionStartSize(quote_font_size)

\* the line height of the caption that was drawn, 0 when none was
FooterHeight == IF MetaOps = <<>> THEN 0 ELSE IntTimes12(MetaOps[1].size)

\* some candidate size fits the height left above the footer
FitsAboveFooter ==
    \E s \in FontSizes :
        LineCount(wrap_text(quote, s, width - 2 * padding)) * IntTimes12(s)
            <= height - 2 * padding - FooterHeight

\* C26: in a finished drawing, unless no candidate size fits (the second pass
\* fell back to the smallest size), the padding, the lines of the quote at
\* the line height of the final size, the line height of the caption drawn
\* and the padding again are no higher than the canvas, and every line of the
\* highlighted quote ends above the caption band.
C26_VerticalBudget ==
    (pc = "done" /\ FitsAboveFooter) =>
        /\ padding + LineCount(wrapped_quote) * IntTimes12(quote_font_size)
               + FooterHeight + padding <= height
        /\ \A i \in 1..Len(NormalLineOps) :
              /\ NormalLineOps[i].y >= padding
              /\ NormalLineOps[i].y + IntTimes12(quote_font_size)
                     <= height - padding - FooterHeight

\* a caption was drawn and the quote had to be made smaller for it
C26_Witness ==
    /\ pc = "done"
    /\ FitsAboveFooter
    /\ MetaOps # <<>>
    /\ NormalLineOps # <<>>
    /\ quote_font_size < ProvisionalSize

(***************************************************************************)
(* The clock: the refresh policy, failed updates, the regenerate signal.   *)
(***************************************************************************)
\* the configured number of partial refreshes before a full one; no handler
\* writes it, so it is constant
Threshold == config_file.partial_refresh_count

\* the positions of the full refreshes among the calls made on the display
FullRefreshes == {i \in 1..Len(epd_calls) : epd_calls[i] = "display"}

\* the position of the last full refresh before position i, 0 when none
LastFullBefore(i) == Max({j \in FullRefreshes : j < i} \cup {0})

\* C27: partial_refresh_count stays within 0..N, N the configured threshold;
\* every full refresh comes after exactly N partial refreshes made since the
\* full refresh before it (or since the start), and the counter is the
\* number of partial refreshes made since the last full refresh: a full
\* refresh resets it, a partial refresh adds 1.
C27_RefreshPolicy ==
    /\ partial_refresh_count \in 0..Threshold
    /\ \A i \in FullRefreshes : i - 1 - LastFullBefore(i) = Threshold
    /\ partial_refresh_count = Len(epd_calls) - LastFullBefore(Len(epd_calls) + 1)

\* two full refreshes with partial refreshes between them, and a failed update
C27_Witness ==
    /\ Threshold >= 1
    /\ Cardinality(FullRefreshes) >= 2
    /\ update_calls > Len(epd_calls)

\* a step of the loop of run
LoopStep == now' # now \/ clock_pc' # clock_pc \/ update_calls' # update_calls

\* a failed update changes neither the counter nor last_update, and
\* last_update changes only with a call made on the display, to the time of
\* the iteration
FailedUpdateChangesNothing ==
    /\ (update_calls' # update_calls /\ clock_pc' = "sleep60") =>
           (partial_refresh_count' = partial_refresh_count /\ last_update' = last_update)
    /\ last_update' # last_update =>
           (Len(epd_calls') = Len(epd_calls) + 1 /\ last_update' = now')

\* the iteration after a failed update comes 60 s later and updates again
RetriedAfterSixtySeconds ==
    (clock_pc = "sleep60" /\ LoopStep) =>
        (now' = now + 60 /\ update_calls' = update_calls + 1)

\* C28: a failed update leaves partial_refresh_count and last_update
\* unchanged and is retried in the next iteration of the loop, 60 s later;
\* last_update advances only on a successful update.
C28_FailedUpdateRetried ==
    [][FailedUpdateChangesNothing /\ RetriedAfterSixtySeconds]_vars

\* C28, amended: the retry comes in the next iteration when the update
\* interval of the configuration file has not been raised meanwhile.
C28_FailedUpdateRetriedSameInterval ==
    [][/\ FailedUpdateChangesNothing
       /\ config_file.update_interval <= update_interval => RetriedAfterSixtySeconds]_vars

\* an update failed and was tried again 60 s later, before any success
C28_Witness ==
    /\ clock_pc = "sleep60"
    /\ update_calls = 2
    /\ now = StartTime + 60
    /\ last_update = 0
    /\ partial_refresh_count = 0

\* C29: an iteration of the loop of run that starts while the signal set by
\* the web handlers (should_regenerate_json of web.py) is set calls
\* regenerate_json and leaves the signal cleared.
C29_SignalObserved ==
    [][(should_regenerate_json /\ LoopStep) =>
           (regenerate_calls' = regenerate_calls + 1 /\ ~should_regenerate_json')]_vars

(***************************************************************************)
(* Bounded work of create_image.                                           *)
(***************************************************************************)
\* the sizes are examined from the largest down, none twice
SizesStrictlyDescending ==
    \A i, j \in 1..Len(font_sizes_desc) :
        i < j => font_sizes_desc[i] > font_sizes_desc[j]

\* a pass calls wrap_text once for each candidate size at most, and once more
\* for the fallback; the caption size never goes below the smallest size
WorkBounded ==
    /\ SizesStrictlyDescending
    /\ wraps <= Cardinality(FontSizes) + 1
    /\ sub_pc = "sizes" => wraps = loop_index - 1
    /\ sub_pc \in {"shrink", "scan"} => meta_font_size \in FontSizes

\* every iteration of a loop moves on: to the next size, to a smaller caption
\* size, to a shorter prefix that is tried because the longer one did not
\* fit; the truncation stops at the first prefix that fits
LoopsAdvance ==
    /\ (sub_pc = "sizes" /\ sub_pc' = "sizes") =>
           (loop_index' = loop_index + 1 /\ wraps' = wraps + 1)
    /\ (sub_pc = "shrink" /\ sub_pc' = "shrink") =>
           (meta_font_size' < meta_font_size /\ meta_font_size' \in FontSizes)
    /\ (sub_pc = "scan" /\ sub_pc' = "scan") =>
           /\ scan_index' < scan_index
           /\ getlength(Slice(meta_text, 0, scan_index) \o ellipsis, meta_font_size)
                  > AvailableWidth
    /\ (sub_pc = "scan" /\ sub_pc' = "none" /\ scan_index >= 1) =>
           /\ meta_text' = Slice(meta_text, 0, scan_index) \o ellipsis
           /\ getlength(meta_text', meta_font_size) <= AvailableWidth

\* C30: every call of create_image ends, and with bounded work: a pass of the
\* selector examines each candidate size once at most (as many calls of
\* wrap_text as candidate sizes at most, and one for the fallback), every
\* iteration of the caption loop makes the caption size smaller and it stops
\* at the smallest size at the latest, every iteration of the truncation
\* makes the prefix shorter and it stops at the first prefix that fits.
C30_BoundedWork ==
    /\ []WorkBounded
    /\ [][LoopsAdvance]_vars
    /\ <>(pc = "done")

\* a call that ended after a pass that examined every size and fell back, a
\* caption made smaller down to the smallest size, and a truncation that went
\* through every prefix without finding one that fits
C30_Witness ==
    /\ pc = "done"
    /\ wraps = Cardinality(FontSizes) + 1
    /\ meta_font_size = Min(FontSizes)
    /\ getlength(meta_text, meta_font_size) > AvailableWidth

====
